---- MODULE Spec2Model ----
(***************************************************************************)
(* Model of the auto-login controller:                                     *)
(*   - the sheet proxy API (get-state normaliser, update-cell),            *)
(*   - the frontend sheet client (sheetRequest, fetchSheetState),          *)
(*   - the polling hook useSheetState and the HomePage handlers.           *)
(*                                                                         *)
(* JavaScript values are tagged records; JavaScript strings are sequences  *)
(* of one-character strings so that trim, toUpperCase and the image        *)
(* formula pattern are computed character by character. A character that   *)
(* a string of this notation cannot hold (the vertical tab, the grave      *)
(* accent and every character outside ASCII) is written as the name of its *)
(* code point, for example "U+00A0".                                       *)
(***************************************************************************)
EXTENDS Integers, Sequences, FiniteSets, Bags, TLC

(***************************************************************************)
(* Bounds of the model                                                     *)
(***************************************************************************)
MaxRows == 3
MaxBody == 2
MaxInFlight == 2
MaxTimers == 1

(***************************************************************************)
(* JavaScript values                                                       *)
(***************************************************************************)
Undef == [t |-> "undefined"]
Null == [t |-> "null"]
Str(s) == [t |-> "string", s |-> s]
Num(n) == [t |-> "number", n |-> n]
Bool(b) == [t |-> "boolean", b |-> b]
\* an array; an object such as a log entry is a record of its properties
Arr(a) == [t |-> "array", a |-> a]

IsNullish(v) == "t" \in DOMAIN v /\ v.t \in {"undefined", "null"}

\* a ?? b
Coalesce(a, b) == IF IsNullish(a) THEN b ELSE a

\* row[i] and row?.[i] with a 0-based index: reading past the end of an array
\* gives undefined. An absent row (rows[0] of an empty array) is written as
\* the empty row: every read of it gives undefined and its length test fails.
Cell(row, i) == IF i + 1 <= Len(row) THEN row[i + 1] ELSE Undef

\* the line terminators of ECMAScript: LF, CR, LS, PS
LineTerminators == {"\n", "\r", "U+2028", "U+2029"}

\* the white space of ECMAScript (WhiteSpace and LineTerminator): what trim()
\* removes and what \s matches
WhiteSpace ==
  {"\t", "U+000B", "\f", " ", "U+00A0", "U+FEFF",
   "U+1680", "U+2000", "U+2001", "U+2002", "U+2003", "U+2004", "U+2005",
   "U+2006", "U+2007", "U+2008", "U+2009", "U+200A", "U+202F", "U+205F",
   "U+3000"} \cup LineTerminators

IsSpace(c) == c \in WhiteSpace

\* the characters that . of a regular expression does not match
IsLineTerminator(c) == c \in LineTerminators

\* String.prototype.trim: what lies between the first and the last character
\* that is not white space
Trim(s) ==
  LET keep == {i \in 1..Len(s) : ~IsSpace(s[i])}
  IN IF keep = {} THEN << >>
     ELSE SubSeq(s, CHOOSE i \in keep : \A j \in keep : i <= j,
                    CHOOSE i \in keep : \A j \in keep : j <= i)

LowerLetters ==
  <<"a", "b", "c", "d", "e", "f", "g", "h", "i", "j", "k", "l", "m",
    "n", "o", "p", "q", "r", "s", "t", "u", "v", "w", "x", "y", "z">>

UpperLetters ==
  <<"A", "B", "C", "D", "E", "F", "G", "H", "I", "J", "K", "L", "M",
    "N", "O", "P", "Q", "R", "S", "T", "U", "V", "W", "X", "Y", "Z">>

\* the characters of ASCII: the control characters that are white space and
\* the printable ones (the grave accent by the name of its code point)
AsciiChars ==
  {"\t", "\n", "U+000B", "\f", "\r", " ", "!", "\"", "#", "$", "%", "&", "'",
   "(", ")", "*", "+", ",", "-", ".", "/", ":", ";", "<", "=", ">", "?", "@",
   "[", "\\", "]", "^", "_", "U+0060", "{", "|", "}", "~",
   "0", "1", "2", "3", "4", "5", "6", "7", "8", "9"}
  \cup {LowerLetters[i] : i \in 1..26} \cup {UpperLetters[i] : i \in 1..26}

\* toUpperCase of the characters outside ASCII that this model writes:
\* sharp s, dotless i, e acute, long s, micro sign, y diaeresis, n preceded
\* by apostrophe, the ligature fi, Cyrillic ya
UpperSpecial ==
  [c \in {"U+00DF", "U+0131", "U+00E9", "U+017F", "U+00B5", "U+00FF",
          "U+0149", "U+FB01", "U+044F"} |->
     CASE c = "U+00DF" -> <<"S", "S">>
       [] c = "U+0131" -> <<"I">>
       [] c = "U+00E9" -> <<"U+00C9">>
       [] c = "U+017F" -> <<"S">>
       [] c = "U+00B5" -> <<"U+039C">>
       [] c = "U+00FF" -> <<"U+0178">>
       [] c = "U+0149" -> <<"U+02BC", "N">>
       [] c = "U+FB01" -> <<"F", "I">>
       [] c = "U+044F" -> <<"U+042F">>]

\* the characters of the strings of this model: ASCII, the white space of
\* ECMAScript, the characters above and their upper case. toUpperCase and the
\* case-insensitive match are defined on these characters only
Alphabet ==
  AsciiChars \cup WhiteSpace \cup DOMAIN UpperSpecial
  \cup {"U+00C9", "U+039C", "U+0178", "U+02BC", "U+042F"}

\* the upper case of each character of the alphabet: one or more characters
UpperOf ==
  [c \in Alphabet |->
     IF c \in DOMAIN UpperSpecial THEN UpperSpecial[c]
     ELSE IF \E i \in 1..26 : LowerLetters[i] = c
       THEN <<UpperLetters[CHOOSE i \in 1..26 : LowerLetters[i] = c]>>
     ELSE <<c>>]

UpperChar(c) == UpperOf[c]

RECURSIVE ConcatUpper(_, _)
ConcatUpper(s, i) ==
  IF i > Len(s) THEN << >> ELSE UpperChar(s[i]) \o ConcatUpper(s, i + 1)

\* String.prototype.toUpperCase
ToUpperCase(s) ==
  IF \A i \in 1..Len(s) : Len(UpperChar(s[i])) = 1
    THEN [i \in 1..Len(s) |-> UpperChar(s[i])[1]]
    ELSE ConcatUpper(s, 1)

\* Canonicalize of a regular expression with the i flag and without the u
\* flag: the upper case of the character, unless that is more than one
\* character or takes a character outside ASCII into ASCII
Canonicalize(c) ==
  LET cu == UpperChar(c)
  IN IF Len(cu) # 1 THEN c
     ELSE IF c \notin AsciiChars /\ cu[1] \in AsciiChars THEN c
     ELSE cu[1]

Digits == <<"0", "1", "2", "3", "4", "5", "6", "7", "8", "9">>

IsDigit(c) == \E i \in 1..10 : Digits[i] = c

RECURSIVE NatToString(_)
NatToString(n) ==
  IF n < 10 THEN <<Digits[n + 1]>>
  ELSE NatToString(n \div 10) \o <<Digits[(n % 10) + 1]>>

\* String(value) for the values a sheet cell can hold
ToStringJS(v) ==
  CASE v.t = "string" -> v.s
    [] v.t = "number" -> NatToString(v.n)
    [] v.t = "boolean" -> IF v.b THEN <<"t", "r", "u", "e">>
                                 ELSE <<"f", "a", "l", "s", "e">>
    [] v.t = "null" -> <<"n", "u", "l", "l">>
    [] OTHER -> <<"u", "n", "d", "e", "f", "i", "n", "e", "d">>

(***************************************************************************)
(* Sheet proxy API: normalizeImageValue                                    *)
(***************************************************************************)
ImagePrefix == <<"=", "I", "M", "A", "G", "E", "(">>

Quote == "\""

\* positions (q1, q2) of the two quotes of /^=IMAGE\(\s*"([^"]+)"(?:,.*)?\)$/i
ImageFormulaQuotes(s) ==
  { q \in (8..Len(s)) \X (8..Len(s)) :
      /\ \A i \in 1..7 : Canonicalize(s[i]) = Canonicalize(ImagePrefix[i])
      /\ s[q[1]] = Quote
      /\ \A k \in 8..(q[1] - 1) : IsSpace(s[k])
      /\ q[2] >= q[1] + 2
      /\ s[q[2]] = Quote
      /\ \A k \in (q[1] + 1)..(q[2] - 1) : s[k] # Quote
      /\ LET rest == SubSeq(s, q[2] + 1, Len(s))
         IN \/ rest = <<")">>
            \/ /\ Len(rest) >= 2
               /\ rest[1] = ","
               /\ rest[Len(rest)] = ")"
               /\ \A k \in 2..(Len(rest) - 1) : ~IsLineTerminator(rest[k]) }

ImageFormulaMatches(s) == Len(s) >= 7 /\ ImageFormulaQuotes(s) # {}

\* capture group 1 of the image formula pattern
ImageFormulaUrl(s) ==
  LET q == CHOOSE q \in ImageFormulaQuotes(s) : TRUE
  IN SubSeq(s, q[1] + 1, q[2] - 1)

normalizeImageValue(value) ==
  IF IsNullish(value) THEN Str(<< >>)
  ELSE IF value.t # "string" THEN value
  ELSE LET trimmed == Trim(value.s)
       IN IF ImageFormulaMatches(trimmed)
            THEN Str(ImageFormulaUrl(trimmed))
            ELSE Str(trimmed)

(***************************************************************************)
(* Sheet proxy API: handleGetState                                         *)
(***************************************************************************)
\* rows.map((row, index) => ({row: index + 2, text: ...}))
LogEntryOf(rows, i) ==
  LET c == Cell(rows[i], 4)
  IN [row |-> (i - 1) + 2,
      text |-> IF c.t = "string" THEN c.s ELSE ToStringJS(Coalesce(c, Str(<< >>)))]

\* the predicate of .filter(...)
LogEntryKept(entry) == entry.text # << >> /\ Trim(entry.text) # << >>

RECURSIVE FilterLogs(_, _)
FilterLogs(rows, i) ==
  IF i > Len(rows) THEN << >>
  ELSE IF LogEntryKept(LogEntryOf(rows, i))
         THEN <<LogEntryOf(rows, i)>> \o FilterLogs(rows, i + 1)
         ELSE FilterLogs(rows, i + 1)

\* a variant that numbers the rows from 1 and skips the filter
LogsOfRowsUnfiltered(rows) ==
  [i \in 1..Len(rows) |-> [row |-> i, text |-> LogEntryOf(rows, i).text]]

LogsOfRows(rows) == FilterLogs(rows, 1)

\* the data object of the get-state response for the raw rows of A2:E
handleGetStateData(rows) ==
  LET firstRow == IF Len(rows) >= 1 THEN rows[1] ELSE << >>
      imageRow == IF Len(rows) > 1 THEN rows[2] ELSE firstRow
      imageValue == IF Len(imageRow) >= 3
                      THEN imageRow[3] ELSE Cell(firstRow, 2)
  IN [A2 |-> Coalesce(Cell(firstRow, 0), Str(<< >>)),
      B2 |-> Coalesce(Cell(firstRow, 1), Str(<< >>)),
      C2 |-> normalizeImageValue(Cell(firstRow, 2)),
      C3 |-> normalizeImageValue(imageValue),
      imageUrl |-> normalizeImageValue(imageValue),
      D2 |-> Coalesce(Cell(firstRow, 3), Str(<< >>)),
      E2 |-> Coalesce(Cell(firstRow, 4), Str(<< >>)),
      logs |-> Arr(LogsOfRows(rows))]

(***************************************************************************)
(* Sheet proxy API: handleUpdateCell and the HTTP responses                *)
(***************************************************************************)
NoResp == [k |-> "none"]

\* fetch() rejected: the request or its answer did not get through
Rejected == [k |-> "reject", message |-> <<"Failed to fetch">>]

\* a body that response.json() rejects: not JSON, or cut short on the way
NotJson == [k |-> "notjson"]

\* the object {}
EmptyObject == [key \in {} |-> Undef]

\* a response with its status line and its body: the JSON value the body
\* parses to, or NotJson
HttpResponse(status, statusText, json) ==
  [k |-> "http", ok |-> (status >= 200 /\ status <= 299),
   status |-> status, statusText |-> statusText, json |-> json]

ErrStr(m) == [t |-> "string", m |-> m]

\* buildResponse(res, {success: true, data})
GetStateOk(rows) ==
  HttpResponse(200, "OK", [success |-> Bool(TRUE), data |-> handleGetStateData(rows)])

\* res.status(500).json({success: false, error})
ServerError(m) ==
  HttpResponse(500, "Internal Server Error",
               [success |-> Bool(FALSE), error |-> ErrStr(m)])

\* buildResponse(res, {success: true})
UpdateCellOk == HttpResponse(200, "OK", [success |-> Bool(TRUE)])

\* a facade that answers 200 with a failure envelope
EnvelopeFailure(err) == HttpResponse(200, "OK", [success |-> Bool(FALSE), error |-> err])

\* a 2xx answer whose body cannot be read as JSON: the page of a proxy or of
\* a wrong script URL, or an answer cut short
UnreadableOk == HttpResponse(200, "OK", NotJson)

AllDigits(s) == s # << >> /\ \A i \in 1..Len(s) : IsDigit(s[i])

RECURSIVE StringToNat(_)
StringToNat(s) ==
  IF s = << >> THEN 0
  ELSE 10 * StringToNat(SubSeq(s, 1, Len(s) - 1))
       + ((CHOOSE i \in 1..10 : Digits[i] = s[Len(s)]) - 1)

\* valueInputOption "USER_ENTERED": the sheet parses the value as if typed
UserEntered(value) ==
  LET v == Coalesce(value, Str(<< >>))
  IN IF v.t = "string" /\ AllDigits(v.s) THEN Num(StringToNat(v.s)) ELSE v

(***************************************************************************)
(* Sheet client: sheetRequest, fetchSheetState                             *)
(***************************************************************************)
Field(obj, name) == IF name \in DOMAIN obj THEN obj[name] ELSE Undef

Threw(m) == [threw |-> TRUE, message |-> m]

Returned(v) == [threw |-> FALSE, value |-> v]

\* the outcome of sheetRequest for the response the network delivers; json is
\* await response.json().catch(() => ({}))
sheetRequest(resp) ==
  IF resp.k = "reject" THEN Threw(resp.message)
  ELSE IF ~resp.ok
    THEN Threw(<<"Sheet request failed: ">> \o NatToString(resp.status)
               \o <<" ", resp.statusText>>)
  ELSE LET json == IF resp.json = NotJson THEN EmptyObject ELSE resp.json
       IN IF json = Null
            THEN Threw(<<"Cannot read properties of null (reading 'success')">>)
          ELSE IF Field(json, "success") = Bool(FALSE)
            THEN Threw(IF Field(json, "error").t = "string"
                         THEN <<Field(json, "error").m>>
                         ELSE <<"Sheet request returned an error.">>)
            ELSE Returned(Coalesce(Field(json, "data"), json))

getString(value) == IF "t" \in DOMAIN value /\ value.t = "string" THEN value ELSE Undef

\* assign(row, value) of collectLogs: entries.set(row, value) for a string
\* that is not blank; entries maps a row to its text
assign(entries, row, value) ==
  IF value.t = "string" /\ Trim(value.s) # << >>
    THEN CHOOSE set \in { [r \in DOMAIN e \cup {row} |-> IF r = row THEN value.s ELSE e[r]] :
                          e \in {entries} } : TRUE
    ELSE entries

\* rowCandidate for an object whose row and index, where present, are numbers
RowCandidate(obj, index) ==
  IF "row" \in DOMAIN obj /\ obj.row # 0 THEN obj.row
  ELSE IF "index" \in DOMAIN obj /\ obj.index + 2 # 0 THEN obj.index + 2
  ELSE index + 2

\* textCandidate for an object whose text and value, where present, are strings
TextCandidate(obj) ==
  IF "text" \in DOMAIN obj THEN Str(obj.text)
  ELSE IF "value" \in DOMAIN obj THEN Str(obj.value)
  ELSE Undef

\* the body of arr.forEach((item, index) => ...) for the item at index
AssignItem(entries, item, index) ==
  IF "t" \in DOMAIN item
    THEN IF item.t = "string" THEN assign(entries, index + 2, item) ELSE entries
    ELSE IF DOMAIN item \cap {"row", "index", "text"} # {}
           THEN LET textCandidate == TextCandidate(item)
                IN IF textCandidate.t = "string" /\ textCandidate.s # << >>
                     THEN assign(entries, RowCandidate(item, index), textCandidate)
                     ELSE entries
           ELSE entries

\* fromArray(arr) from its k-th item on (index k - 1)
RECURSIVE fromArray(_, _, _)
fromArray(entries, arr, k) ==
  IF k > Len(arr) THEN entries
  ELSE CHOOSE done \in { fromArray(e, arr, k + 1) :
                         e \in {AssignItem(entries, arr[k], k - 1)} } : TRUE

\* s.split(/\r?\n/): cur is the piece being read
RECURSIVE SplitLines(_, _)
SplitLines(s, cur) ==
  IF s = << >> THEN <<cur>>
  ELSE IF Head(s) = "\n" THEN <<cur>> \o SplitLines(Tail(s), << >>)
  ELSE IF Head(s) = "\r" /\ Len(s) >= 2 /\ s[2] = "\n"
         THEN <<cur>> \o SplitLines(SubSeq(s, 3, Len(s)), << >>)
  ELSE SplitLines(Tail(s), Append(cur, Head(s)))

\* .map((line) => line.trim()).filter(Boolean)
TrimmedLines(s) ==
  CHOOSE kept \in { SelectSeq([i \in 1..Len(lines) |-> Trim(lines[i])],
                              LAMBDA line : line # << >>) :
                    lines \in {SplitLines(s, << >>)} } : TRUE

RECURSIVE AssignLines(_, _, _)
AssignLines(entries, lines, k) ==
  IF k > Len(lines) THEN entries
  ELSE CHOOSE done \in { AssignLines(e, lines, k + 1) :
                         e \in {assign(entries, (k - 1) + 2, Str(lines[k]))} } : TRUE

\* the digits of a property name from position i on, as characters
RECURSIVE KeyDigits(_, _)
KeyDigits(key, i) ==
  IF i > Len(key) THEN << >> ELSE <<SubSeq(key, i, i)>> \o KeyDigits(key, i + 1)

\* key.match(/^E(\d+)$/i)
IsECellKey(key) ==
  /\ Len(key) >= 2
  /\ SubSeq(key, 1, 1) \in {"E", "e"}
  /\ AllDigits(KeyDigits(key, 2))

\* parseInt(match[1], 10)
ECellRow(key) == StringToNat(KeyDigits(key, 2))

\* the keys of raw that name a cell of column E
ECellKeys(raw) == {key \in DOMAIN raw : IsECellKey(key)}

\* Object.entries(raw).forEach(...) over the keys still to visit. The code
\* visits the keys in the order of their creation, which matters between two
\* keys of one row only (E2 and e2: the later one wins) and which a record
\* does not hold: the operator is defined on the objects whose keys name
\* different rows, as the data of handleGetState (one key, E2), and has no
\* value on the others
RECURSIVE AssignECells(_, _, _)
AssignECells(entries, raw, keys) ==
  IF keys = {} THEN entries
  ELSE CHOOSE done \in
         { AssignECells(assign(entries, ECellRow(key), raw[key]), raw, keys \ {key}) :
             key \in { CHOOSE k \in keys :
                         \A other \in keys \ {k} : ECellRow(other) # ECellRow(k) } } : TRUE

\* Array.from(entries.entries()).sort(...).map(([row, text]) => ({row, text}))
RECURSIVE SortedEntries(_, _)
SortedEntries(entries, todo) ==
  IF todo = {} THEN << >>
  ELSE LET row == CHOOSE r \in todo : \A q \in todo : r <= q
       IN <<[row |-> row, text |-> entries[row]]>>
            \o SortedEntries(entries, todo \ {row})

\* the four sources in the order of the code: raw.logs, raw.log as an array,
\* raw.log as lines, the E<row> keys; then the entries sorted by row
collectLogs(raw) ==
  LET maybeLogs == Field(raw, "logs")
      maybeLog == Field(raw, "log")
  IN CHOOSE logs \in
       { Arr(SortedEntries(e4, DOMAIN e4)) :
           e4 \in { AssignECells(e3, raw, keys) :
             keys \in {ECellKeys(raw)},
             e3 \in { IF maybeLog.t = "string"
                        THEN AssignLines(e2, TrimmedLines(maybeLog.s), 1) ELSE e2 :
               e2 \in { IF maybeLog.t = "array"
                          THEN fromArray(e1, maybeLog.a, 1) ELSE e1 :
                 e1 \in { IF maybeLogs.t = "array"
                            THEN fromArray(<< >>, maybeLogs.a, 1) ELSE << >> } } } } } : TRUE

\* the SheetState built from the get-state data
SheetStateOf(data) ==
  [action |-> Coalesce(getString(Field(data, "action")), getString(Field(data, "A2"))),
   time |-> Coalesce(getString(Field(data, "time")), getString(Field(data, "B2"))),
   imageUrl |-> Coalesce(getString(Field(data, "imageUrl")),
                  Coalesce(getString(Field(data, "C3")), getString(Field(data, "C2")))),
   answer |-> Coalesce(getString(Field(data, "answer")), getString(Field(data, "D2"))),
   log |-> Coalesce(getString(Field(data, "log")), getString(Field(data, "E2"))),
   logs |-> collectLogs(data)]

\* the request is awaited once, r is its outcome: a throw propagates, a value
\* is turned into the SheetState
fetchSheetState(resp) ==
  CHOOSE result \in { IF r.threw THEN r ELSE Returned(SheetStateOf(r.value)) :
                      r \in {sheetRequest(resp)} } : TRUE

RunText == <<"R", "U", "N">>

\* a stop test that compares the raw status with "RUN"
IsRunExact(sheetState) ==
  Coalesce(sheetState.action, Str(<< >>)).s = RunText

\* (sheetState.action ?? "").trim().toUpperCase() === "RUN"
IsRun(sheetState) ==
  \E trimmed \in {Trim(Coalesce(sheetState.action, Str(<< >>)).s)} :
    ToUpperCase(trimmed) = RunText

(***************************************************************************)
(* State                                                                   *)
(***************************************************************************)
VARIABLES
  mounted,     \* the HomePage component is mounted
  state,       \* useSheetState: last fetched SheetState, or Null
  loading,     \* useSheetState: loading flag
  error,       \* useSheetState: error message, or NoMessage
  polling,     \* useSheetState: polling flag
  timerRef,    \* useSheetState: timerRef.current, 0 for undefined
  timers,      \* the interval timers alive in the window
  loads,       \* the calls of load() whose fetch has not completed
  answer,      \* HomePage: captcha input
  submitting,  \* HomePage: submitting flag
  running,     \* HomePage: running flag
  feedback,    \* HomePage: feedback banner, or Null
  runReq,      \* the update-cell request of handleRun
  subReq,      \* the update-cell request of handleSubmit
  sheetA2,     \* the sheet: status cell, the cell the polling depends on
  sheetD2,     \* the sheet: the cell of the captcha answer
  rows,        \* normaliser runs: the raw rows read from the sheet
  out,         \* normaliser runs: the get-state data, or Null
  img          \* unwrapping runs: the input and its successive unwrappings

hookVars == <<state, loading, error, polling, timerRef, timers, loads>>
pageVars == <<mounted, answer, submitting, running, feedback, runReq, subReq>>
sheetVars == <<sheetA2, sheetD2>>
pureVars == <<rows, out, img>>
vars == <<hookVars, pageVars, sheetVars, pureVars>>

NoMessage == << >>
NoReq == [k |-> "idle"]
Sent(cell, value) == [k |-> "sent", cell |-> cell, value |-> value]
HasResponse(req) == req.k \in {"http", "reject"}

DoneText == <<"D", "O", "N", "E">>
RunLowerText == <<"\f", "r", "u", "n", "U+00A0">>

\* values the status cell takes: written by the operator or the login robot
StatusValues == {Str(RunText), Str(RunLowerText), Str(DoneText)}

\* what the operator types into the captcha input
AnswerInputs == {<<"1", "a", "2", "3", "4">>}

\* the rows values.get returns for A2:E: one row, without its trailing empty
\* cells
SheetRows(a2, d2) ==
  IF d2 = Str(<< >>) THEN << <<a2>> >>
  ELSE << <<a2, Str(<< >>), Str(<< >>), d2>> >>

DEFAULT_POLL_INTERVAL == 2000

\* the ways a get-state request fails: 5xx from the facade, the transport,
\* or a 200 answer with a failure envelope
GetStateFailures ==
  {ServerError("Unknown error when reading sheet"), Rejected,
   EnvelopeFailure(ErrStr("Missing GOOGLE_SHEET_ID on server"))}

\* the ways an update-cell request fails
UpdateCellFailures ==
  {ServerError("Unknown error when updating sheet"), Rejected}

\* what can reach the client in place of the answer of the facade, whether
\* the facade has answered or not: a failure, or a 2xx answer with an
\* unreadable body, which sheetRequest takes for a success
GetStateReplies == GetStateFailures \cup {UnreadableOk}

UpdateCellReplies == UpdateCellFailures \cup {UnreadableOk}

(***************************************************************************)
(* useSheetState                                                           *)
(***************************************************************************)
\* the part of the hook that stopPolling and startPolling work on
Hook == [timers |-> timers, timerRef |-> timerRef, polling |-> polling]

\* a stopPolling that forgets the reference without clearing the interval
stopPollingNoClear(h) == [timers |-> h.timers, timerRef |-> 0, polling |-> FALSE]

stopPolling(h) ==
  [timers |-> IF h.timerRef # 0 THEN h.timers \ {h.timerRef} ELSE h.timers,
   timerRef |-> 0,
   polling |-> FALSE]

\* the identifiers of interval timers
TimerIds == 1..(MaxTimers + 1)

\* window.setInterval returns a positive integer of the browser's choice that
\* no active timer has: the next of a counter in the usual browsers, any
\* unused one by the HTML standard
NewTimerIds(active) == TimerIds \ active

\* startPolling without the call of load(), id being what setInterval returns
startPolling(h, id) ==
  LET s == stopPolling(h)
  IN [timers |-> s.timers \cup {id}, timerRef |-> id, polling |-> TRUE]

\* the get-state requests in flight, and those that the handlers waiting for
\* their update-cell request issue when it succeeds
Committed ==
  BagCardinality(loads) + (IF runReq.k = "idle" THEN 0 ELSE 1)
                        + (IF subReq.k = "idle" THEN 0 ELSE 1)

\* the bound of the model on the get-state requests in flight: load() sends
\* without a limit; the interval does not fire and the operator does not
\* press a button while MaxInFlight requests are in flight or committed, so
\* that no continuation of a handler has to wait
CanIssue == Committed < MaxInFlight

\* load() up to its await: the flags are set and the get-state request is
\* sent; how records the call site: "void" for void load() in startPolling and
\* in the interval callback, "await" for await reload() in handleSubmit
IssueLoad(how) ==
  /\ loading' = TRUE
  /\ error' = NoMessage
  /\ loads' = loads (+) SetToBag({[how |-> how, resp |-> NoResp]})

SetHook(h) ==
  /\ timers' = h.timers
  /\ timerRef' = h.timerRef
  /\ polling' = h.polling

\* a catch branch of load() that records the error and keeps polling
LoadFailedHookKeep(h) == h

\* the hook after the catch branch of load()
LoadFailedHook(h) == stopPolling(h)

\* a try branch of load() that never stops polling
LoadedHookKeep(h, sheetState) == h

\* the hook after the try branch of load() for the fetched sheetState
LoadedHook(h, sheetState) == IF ~IsRun(sheetState) THEN stopPolling(h) ELSE h

\* the response a pending request completes with: the answer of the facade
\* once it has answered, or at any time one of the replies that take its place
Arrives(resp, pending, replies) ==
  \/ resp \in replies
  \/ HasResponse(pending) /\ resp = pending

\* the rest of load() once its fetch has completed with resp: the try or the
\* catch branch, then finally; a load called as reload() by handleSubmit then
\* lets handleSubmit finish
LoadDone(l, resp) ==
  /\ BagIn(l, loads)
  /\ Arrives(resp, l.resp, GetStateReplies)
  /\ loads' = loads (-) SetToBag({l})
  /\ loading' = FALSE
  /\ submitting' = IF l.how = "await" THEN FALSE ELSE submitting
  /\ UNCHANGED <<mounted, answer, running, feedback, runReq, subReq>>
  /\ UNCHANGED <<sheetVars, pureVars>>
  /\ \E r \in {fetchSheetState(resp)} : \E h \in {Hook} :
       IF r.threw
         THEN /\ error' = r.message
              /\ SetHook(LoadFailedHook(h))
              /\ state' = state
         ELSE /\ state' = r.value
              /\ \E after \in {LoadedHook(h, r.value)} : SetHook(after)
              /\ error' = error

\* the callback of the interval timer
Tick(id) ==
  /\ id \in timers
  /\ CanIssue
  /\ IssueLoad("void")
  /\ UNCHANGED <<state, polling, timerRef, timers>>
  /\ UNCHANGED <<pageVars, sheetVars, pureVars>>

\* the cleanup of the hook's effect
Unmount ==
  /\ mounted
  /\ mounted' = FALSE
  /\ SetHook(stopPolling(Hook))
  /\ UNCHANGED <<state, loading, error, loads>>
  /\ UNCHANGED <<answer, submitting, running, feedback, runReq, subReq>>
  /\ UNCHANGED <<sheetVars, pureVars>>

(***************************************************************************)
(* HomePage                                                                *)
(***************************************************************************)
Feedback(type, message) == [type |-> type, message |-> message]

RECURSIVE DigitsOnly(_)
DigitsOnly(s) ==
  IF s = << >> THEN << >>
  ELSE IF IsDigit(Head(s)) THEN <<Head(s)>> \o DigitsOnly(Tail(s))
  ELSE DigitsOnly(Tail(s))

\* value.replace(/\D/g, "").slice(0, 3)
handleAnswerChangeValue(value) ==
  LET d == DigitsOnly(value) IN SubSeq(d, 1, IF Len(d) < 3 THEN Len(d) ELSE 3)

AnswerChange(value) ==
  /\ mounted
  /\ answer' = handleAnswerChangeValue(value)
  /\ answer' # answer
  /\ UNCHANGED <<mounted, submitting, running, feedback, runReq, subReq>>
  /\ UNCHANGED <<hookVars, sheetVars, pureVars>>

\* handleRun up to its await: the RUN LOGIN button is enabled while not
\* running; CanIssue is the bound of the model on when the operator presses
HandleRun ==
  /\ mounted
  /\ ~running
  /\ CanIssue
  /\ feedback' = Null
  /\ running' = TRUE
  /\ runReq' = Sent("A2", Str(RunText))
  /\ UNCHANGED <<mounted, answer, submitting, subReq>>
  /\ UNCHANGED <<hookVars, sheetVars, pureVars>>

\* the hook after the catch branch of handleRun
RunFailedHook(h) == stopPolling(h)

\* the rest of handleRun once triggerRun has completed with resp
RunDone(resp) ==
  /\ runReq.k # "idle"
  /\ Arrives(resp, runReq, UpdateCellReplies)
  /\ LET r == sheetRequest(resp)
     IN IF r.threw
          THEN /\ feedback' = Feedback("error", r.message)
               /\ SetHook(RunFailedHook(Hook))
               /\ UNCHANGED <<loading, error, loads>>
          ELSE /\ feedback' = Feedback("success",
                                <<"Set A2 = RUN. Please check the Google Sheet.">>)
               /\ \E id \in NewTimerIds(stopPolling(Hook).timers) :
                    SetHook(startPolling(Hook, id))
               /\ IssueLoad("void")
  /\ running' = FALSE
  /\ runReq' = NoReq
  /\ UNCHANGED <<state, mounted, answer, submitting, subReq>>
  /\ UNCHANGED <<sheetVars, pureVars>>

\* handleSubmit up to its await: the Send button is enabled while
\* !(submitting || answer.length !== 3); CanIssue is the bound of the model on
\* when the operator sends
HandleSubmit ==
  /\ mounted
  /\ ~(submitting \/ Len(answer) # 3)
  /\ LET trimmed == Trim(answer)
     IN IF Len(trimmed) # 3
          THEN /\ feedback' = Feedback("error",
                      <<"Please enter exactly 3 digits before sending.">>)
               /\ UNCHANGED <<submitting, subReq>>
          ELSE /\ CanIssue
               /\ feedback' = Null
               /\ submitting' = TRUE
               /\ subReq' = Sent("D2", Str(trimmed))
  /\ UNCHANGED <<mounted, answer, running, runReq>>
  /\ UNCHANGED <<hookVars, sheetVars, pureVars>>

\* the hook after the catch branch of handleSubmit
SubmitFailedHook(h) == h

\* the rest of handleSubmit once submitAnswer has completed with resp
SubmitDone(resp) ==
  /\ subReq.k # "idle"
  /\ Arrives(resp, subReq, UpdateCellReplies)
  /\ LET r == sheetRequest(resp)
     IN IF r.threw
          THEN /\ feedback' = Feedback("error", r.message)
               /\ submitting' = FALSE
               /\ SetHook(SubmitFailedHook(Hook))
               /\ UNCHANGED <<answer, loading, error, loads>>
          ELSE /\ feedback' = Feedback("success", <<"Captcha code saved to cell D2.">>)
               /\ answer' = << >>
               /\ IssueLoad("await")
               /\ UNCHANGED <<submitting, polling, timerRef, timers>>
  /\ subReq' = NoReq
  /\ UNCHANGED <<state, mounted, running, runReq>>
  /\ UNCHANGED <<sheetVars, pureVars>>

(***************************************************************************)
(* The facade and the sheet                                                *)
(***************************************************************************)
SetResp(l, resp) ==
  loads' = (loads (-) SetToBag({l})) (+) SetToBag({[l EXCEPT !.resp = resp]})

\* the facade answers a get-state request from the sheet as it is now
ServerGetState(l) ==
  /\ BagIn(l, loads)
  /\ l.resp = NoResp
  /\ SetResp(l, GetStateOk(SheetRows(sheetA2, sheetD2)))
  /\ UNCHANGED <<state, loading, error, polling, timerRef, timers>>
  /\ UNCHANGED <<pageVars, sheetVars, pureVars>>

\* the sheet after values.update of cell with value
WriteCell(cell, value) ==
  /\ sheetA2' = IF cell = "A2" THEN UserEntered(value) ELSE sheetA2
  /\ sheetD2' = IF cell = "D2" THEN UserEntered(value) ELSE sheetD2

\* handleUpdateCell: the value is written as entered and acknowledged
ServerUpdateCell ==
  /\ \/ /\ runReq.k = "sent"
        /\ WriteCell(runReq.cell, runReq.value)
        /\ runReq' = UpdateCellOk
        /\ UNCHANGED subReq
     \/ /\ subReq.k = "sent"
        /\ WriteCell(subReq.cell, subReq.value)
        /\ subReq' = UpdateCellOk
        /\ UNCHANGED runReq
  /\ UNCHANGED <<mounted, answer, submitting, running, feedback>>
  /\ UNCHANGED <<hookVars, pureVars>>

\* the login robot or an operator edits the status cell
SheetEdited(v) ==
  /\ v \in StatusValues
  /\ v # sheetA2
  /\ sheetA2' = v
  /\ UNCHANGED <<sheetD2, hookVars, pageVars, pureVars>>

(***************************************************************************)
(* Specification of the frontend with the facade                           *)
(***************************************************************************)
Started ==
  /\ mounted = TRUE
  /\ state = Null
  /\ loading = FALSE
  /\ error = NoMessage
  /\ polling = FALSE
  /\ timerRef = 0
  /\ timers = {}
  /\ loads = EmptyBag
  /\ answer = << >>
  /\ submitting = FALSE
  /\ running = FALSE
  /\ feedback = Null
  /\ runReq = NoReq
  /\ subReq = NoReq
  /\ sheetA2 = Str(DoneText)
  /\ sheetD2 = Str(<< >>)
  /\ rows = << >>
  /\ out = Null
  /\ img = << >>

Init == Started

Next ==
  \/ \E v \in AnswerInputs : AnswerChange(v)
  \/ HandleRun
  \/ \E resp \in UpdateCellReplies \cup {UpdateCellOk} : RunDone(resp)
  \/ HandleSubmit
  \/ \E resp \in UpdateCellReplies \cup {UpdateCellOk} : SubmitDone(resp)
  \/ \E l \in BagToSet(loads) :
       \E resp \in GetStateReplies \cup {l.resp} : LoadDone(l, resp)
  \/ \E id \in TimerIds : Tick(id)
  \/ Unmount
  \/ \E l \in BagToSet(loads) : ServerGetState(l)
  \/ ServerUpdateCell
  \/ \E v \in StatusValues : SheetEdited(v)

Spec == Init /\ [][Next]_vars

\* the interval timer fires while it is alive, the facade answers, and the
\* continuation of every awaited request runs; the fairness of the timer is
\* strong because the bound CanIssue, which setInterval does not have,
\* disables Tick from time to time
Fairness ==
  /\ SF_vars(\E id \in TimerIds : Tick(id))
  /\ WF_vars(\E l \in BagToSet(loads) : ServerGetState(l))
  /\ WF_vars(\E l \in BagToSet(loads) : HasResponse(l.resp) /\ LoadDone(l, l.resp))
  /\ WF_vars(ServerUpdateCell)
  /\ WF_vars(RunDone(UpdateCellOk))
  /\ WF_vars(SubmitDone(UpdateCellOk))

LiveSpec == Init /\ [][Next]_vars /\ Fairness

(***************************************************************************)
(* Vocabulary of the properties of the polling controller                  *)
(***************************************************************************)
\* the controller is Idle: not polling and no interval timer alive
Idle == ~polling /\ timers = {}

\* the controller is Polling: the flag is set and the timer it owns is alive
Polling == polling /\ timerRef # 0 /\ timers = {timerRef}

\* the status values that read as RUN once trimmed and upper-cased
RunLike == {Str(RunText), Str(RunLowerText)}

HookUnchanged == polling' = polling /\ timers' = timers /\ timerRef' = timerRef

\* the responses with which the fetch of load l completes successfully: the
\* answer of the facade once it is there, and a 2xx answer with an unreadable
\* body
SuccessReplies(l) ==
  {UnreadableOk} \cup (IF HasResponse(l.resp) THEN {l.resp} ELSE {})

\* the fetch of load l completes successfully with resp
FetchSucceeds(l, resp) == resp \in SuccessReplies(l) /\ LoadDone(l, resp)

\* the status that resp brings reads as RUN; an unreadable body brings none
FetchedRun(resp) == resp.json # NotJson /\ resp.json.data.A2 \in RunLike

\* the fetch of load l fails with f
FetchFails(l, f) == f \in GetStateFailures /\ LoadDone(l, f)

RunFails == \E f \in UpdateCellFailures : RunDone(f)

SubmitFails == \E f \in UpdateCellFailures : SubmitDone(f)

\* handleRun reaches its call of startPolling(): triggerRun has resolved,
\* with the acknowledgement of the facade or with an unreadable 2xx answer
StartPollingCalled == \E resp \in {UpdateCellOk, UnreadableOk} : RunDone(resp)

\* the message sheetRequest throws for each way a request fails
FailureMessage(f) ==
  CASE f = Rejected -> <<"Failed to fetch">>
    [] f.k = "http" /\ f.status = 500 ->
         <<"Sheet request failed: ", "5", "0", "0", " ", "Internal Server Error">>
    [] OTHER -> <<"Missing GOOGLE_SHEET_ID on server">>

\* the number of fetches in flight that startPolling or its timer issued
PollLoads(b) == BagCardinality([l \in {x \in DOMAIN b : x.how = "void"} |-> b[l]])

(***************************************************************************)
(* C1 as stated: after a successful fetch the controller is Idle if and    *)
(* only if the fetched status, trimmed and upper-cased, is not "RUN".       *)
(***************************************************************************)
IdleIffNotRun ==
  [][\A l \in BagToSet(loads) : \A resp \in SuccessReplies(l) :
       FetchSucceeds(l, resp) => (Idle' <=> ~FetchedRun(resp))]_vars

(***************************************************************************)
(* C1 amended: after every successful fetch, that of a 2xx answer with an  *)
(* unreadable body included, a status that is not "RUN" (or no status)     *)
(* leaves the controller Idle, and a status that is "RUN" (such as "run ") *)
(* leaves the polling flag and the timer as they were, so that a Polling   *)
(* controller stays Polling.                                               *)
(***************************************************************************)
NotRunStopsRunKeeps ==
  [][\A l \in BagToSet(loads) : \A resp \in SuccessReplies(l) :
       \/ /\ ~FetchedRun(resp) => Idle' /\ timerRef' = 0
          /\ FetchedRun(resp) => HookUnchanged /\ (Polling => Polling')
       \/ ~FetchSucceeds(l, resp)]_vars

\* a fetch of a padded lower-case "run" has completed and the controller is still Polling
RunKeepsWitness ==
  /\ Polling
  /\ state # Null
  /\ state.action = Str(RunLowerText)
  /\ ~loading

(***************************************************************************)
(* C2: a failed fetch records its message in error and leaves the          *)
(* controller Idle; from Idle no timer appears and no fetch is issued by a *)
(* timer until startPolling is called again, by a handleRun whose          *)
(* triggerRun resolved.                                                    *)
(***************************************************************************)
FetchFailureStops ==
  [][/\ \A l \in BagToSet(loads) : \A f \in GetStateFailures :
          FetchFails(l, f) => error' = FailureMessage(f) /\ Idle' /\ timerRef' = 0
     /\ Idle /\ ~Idle' => StartPollingCalled
     /\ Idle /\ ~StartPollingCalled => PollLoads(loads') <= PollLoads(loads)]_vars

\* a fetch failed after the controller had seen RUN
FetchFailureWitness ==
  /\ error = <<"Failed to fetch">>
  /\ Idle
  /\ state # Null
  /\ state.action = Str(RunText)
  /\ feedback = Feedback("success", <<"Set A2 = RUN. Please check the Google Sheet.">>)

(***************************************************************************)
(* C3: at most one fetch of the controller is in flight.                   *)
(***************************************************************************)
FetchesSequential == BagCardinality(loads) <= 1

(***************************************************************************)
(* C4: a polling fetch that completes when the controller is already Idle  *)
(* leaves the session's state, polling flag and timer unchanged.           *)
(***************************************************************************)
LateResultDiscarded ==
  [][\A l \in BagToSet(loads) : \A resp \in GetStateFailures \cup {l.resp} :
       (Idle /\ l.how = "void" /\ LoadDone(l, resp)) =>
         (state' = state /\ HookUnchanged)]_vars

(***************************************************************************)
(* C5: once the Screen has unmounted no interval timer is alive.           *)
(***************************************************************************)
NoTimerAfterUnmount == ~mounted => timers = {}

(***************************************************************************)
(* C6: after every step at most one interval timer is alive, the one       *)
(* timerRef names, and right after every call of stopPolling that ends a   *)
(* handler (unmount, the catch of handleRun, a failed fetch, a successful  *)
(* fetch that brought no RUN) no timer is alive and polling is false, also *)
(* when the controller was Idle already.                                   *)
(***************************************************************************)
StopPollingEndsStep ==
  \/ Unmount
  \/ RunFails
  \/ \E l \in BagToSet(loads) :
       \/ \E f \in GetStateFailures : FetchFails(l, f)
       \/ \E resp \in SuccessReplies(l) : FetchSucceeds(l, resp) /\ ~FetchedRun(resp)

OneTimerAtMost ==
  [][/\ Cardinality(timers') <= 1
     /\ timers' \subseteq {timerRef'}
     /\ (Idle' /\ timerRef' = 0) \/ ~StopPollingEndsStep]_vars

\* polling was started, stopped by a failed fetch, and stopped again by unmount
StopTwiceWitness ==
  /\ ~mounted
  /\ Idle
  /\ timerRef = 0
  /\ error # NoMessage
  /\ feedback = Feedback("success", <<"Set A2 = RUN. Please check the Google Sheet.">>)
  /\ loads = EmptyBag
  /\ runReq = NoReq

(***************************************************************************)
(* C7: after a failed fetch, a failed run request or a failed captcha      *)
(* submission the controller is Idle.                                      *)
(***************************************************************************)
EveryErrorStops ==
  [][(\/ \E l \in BagToSet(loads) : \E f \in GetStateFailures : FetchFails(l, f)
      \/ RunFails
      \/ SubmitFails) => Idle']_vars

LogCells ==
  {Str(<< >>), Str(<<" ">>), Str(<<"\f", "U+2003">>), Str(<<"a">>),
   Str(<<" ", "a", " ">>), Num(0), Num(12), Bool(TRUE), Null}

\* rows as the sheet returns them: trailing empty cells are left out
RowChoices ==
  { <<Str(RunText), Str(<< >>), Str(<<"x">>), Str(<< >>), e>> : e \in LogCells }
  \cup { <<Num(123), Str(<<"t">>), Str(<< >>), Num(123), e>> : e \in LogCells }
  \cup { << >>, <<Str(DoneText)>>, <<Str(RunText), Str(<< >>), Str(<<"y">>)>> }

RowSets == UNION { [1..k -> RowChoices] : k \in 0..MaxRows }

PollingIdle ==
  /\ mounted = TRUE
  /\ state = Null
  /\ loading = FALSE
  /\ error = NoMessage
  /\ polling = FALSE
  /\ timerRef = 0
  /\ timers = {}
  /\ loads = EmptyBag
  /\ answer = << >>
  /\ submitting = FALSE
  /\ running = FALSE
  /\ feedback = Null
  /\ runReq = NoReq
  /\ subReq = NoReq
  /\ sheetA2 = Str(DoneText)
  /\ sheetD2 = Str(<< >>)

NormInit ==
  /\ PollingIdle
  /\ rows \in RowSets
  /\ out = Null
  /\ img = << >>

\* handleGetState builds the response data from the rows it read
GetState ==
  /\ out = Null
  /\ out' = handleGetStateData(rows)
  /\ UNCHANGED <<rows, img, hookVars, pageVars, sheetVars>>

\* the sheet client reads the response of handleGetState
ClientFetch ==
  /\ out # Null
  /\ state = Null
  /\ \E r \in {fetchSheetState(GetStateOk(rows))} : state' = r.value
  /\ UNCHANGED <<loading, error, polling, timerRef, timers, loads>>
  /\ UNCHANGED <<rows, out, img, pageVars, sheetVars>>

NormNext == GetState \/ ClientFetch

NormSpec == NormInit /\ [][NormNext]_vars

(***************************************************************************)
(* Specification of repeated image-formula unwrapping                      *)
(***************************************************************************)
BodyChars == {" ", "x"}

Bodies == UNION { [1..k -> BodyChars] : k \in 0..MaxBody }

ImageInputs ==
  { lead \o head \o sp \o q \o body \o q \o args \o close :
      lead \in {<< >>, <<" ">>},
      head \in {ImagePrefix, <<"=", "i", "m", "a", "g", "e", "(">>,
                <<"=", "U+0131", "M", "A", "G", "E", "(">>, << >>},
      sp \in {<< >>, <<" ">>},
      q \in {<<Quote>>, << >>},
      body \in Bodies,
      args \in {<< >>, <<",", "1">>},
      close \in {<<")">>, << >>} }

ImageInit ==
  /\ PollingIdle
  /\ rows = << >>
  /\ out = Null
  /\ \E s \in ImageInputs : img = <<Str(s)>>

\* normalizeImageValue is applied to the result of the previous application
Unwrap ==
  /\ Len(img) \in 1..2
  /\ img' = Append(img, normalizeImageValue(img[Len(img)]))
  /\ UNCHANGED <<rows, out, hookVars, pageVars, sheetVars>>

ImageNext == Unwrap

ImageSpec == ImageInit /\ [][ImageNext]_vars

(***************************************************************************)
(* C9: for every raw row set the logs have one entry per row whose fifth   *)
(* cell is non-blank, with row = 0-based index + 2, strictly ascending by  *)
(* row, with no entry whose trimmed text is empty, and a non-string cell   *)
(* appears as its string form.                                             *)
(***************************************************************************)
\* a cell is blank when it is absent, null, or a string of white space only
BlankCell(c) ==
  \/ c.t \in {"undefined", "null"}
  \/ c.t = "string" /\ \A k \in 1..Len(c.s) : IsSpace(c.s[k])

FifthCell(row) == IF Len(row) >= 5 THEN row[5] ELSE Undef

LogsAreTheNonBlankRows ==
  out # Null =>
    /\ \A i \in 1..Len(rows) :
         Cardinality({k \in 1..Len(out.logs.a) : out.logs.a[k].row = i + 1})
           = IF BlankCell(FifthCell(rows[i])) THEN 0 ELSE 1
    /\ \A k \in 1..Len(out.logs.a) :
         /\ out.logs.a[k].row \in 2..(Len(rows) + 1)
         /\ Trim(out.logs.a[k].text) # << >>
         /\ LET c == FifthCell(rows[out.logs.a[k].row - 1])
            IN CASE c.t = "string" -> out.logs.a[k].text = c.s
                 [] c.t = "number" -> out.logs.a[k].text = NatToString(c.n)
                 [] c.t = "boolean" ->
                      out.logs.a[k].text = IF c.b THEN <<"t", "r", "u", "e">>
                                                ELSE <<"f", "a", "l", "s", "e">>
                 [] OTHER -> FALSE
    /\ \A k \in 1..(Len(out.logs.a) - 1) : out.logs.a[k].row < out.logs.a[k + 1].row

\* three rows: a padded text, a blank in between, a number
LogsWitness ==
  /\ out # Null
  /\ Len(rows) = 3
  /\ FifthCell(rows[1]) = Str(<<" ", "a", " ">>)
  /\ FifthCell(rows[2]) = Str(<<" ">>)
  /\ FifthCell(rows[3]) = Num(12)
  /\ out.logs.a = <<[row |-> 2, text |-> <<" ", "a", " ">>],
                  [row |-> 4, text |-> <<"1", "2">>]>>

(***************************************************************************)
(* C10: unwrapping an image formula twice gives the same as unwrapping it  *)
(* once, also when the quoted URL has leading or trailing white space.     *)
(***************************************************************************)
UnwrapIdempotent == Len(img) = 3 => img[3] = img[2]

(***************************************************************************)
(* C11: for every raw row set the response fields A2, B2, D2 and E2 are    *)
(* strings: a first-row cell that is not a string is returned in its       *)
(* string form (the number 123 as "123"), an absent cell as the empty      *)
(* string, and the client's action, time, answer and log fields carry the  *)
(* same content.                                                           *)
(***************************************************************************)
FirstRow == IF Len(rows) >= 1 THEN rows[1] ELSE << >>

\* the string the cell is read as: its text, the text of its value, or ""
StringForm(c) == IF IsNullish(c) THEN Str(<< >>) ELSE Str(ToStringJS(c))

StateFieldsAreStrings ==
  out # Null =>
    /\ out.A2 = StringForm(Cell(FirstRow, 0))
    /\ out.B2 = StringForm(Cell(FirstRow, 1))
    /\ out.D2 = StringForm(Cell(FirstRow, 3))
    /\ out.E2 = StringForm(Cell(FirstRow, 4))
    /\ state # Null =>
         /\ state.action = out.A2
         /\ state.time = out.B2
         /\ state.answer = out.D2
         /\ state.log = out.E2

(***************************************************************************)
(* C12: polling begins only after RUN LOGIN was pressed and the write was  *)
(* acknowledged: a step that creates a timer, sets the polling flag, or    *)
(* issues a poll fetch from Idle is handleRun reaching startPolling() with *)
(* the successful answer of the update-cell request that wrote "RUN" to    *)
(* A2; when that request fails, the press issues no poll fetch and leaves  *)
(* the controller Idle.                                                    *)
(***************************************************************************)
\* the facade has written the cell and answered this press with success
RunAcknowledged == running /\ runReq = UpdateCellOk

PollingBegins ==
  \/ timers' \ timers # {}
  \/ polling' /\ ~polling
  \/ Idle /\ PollLoads(loads') > PollLoads(loads)

PollingBeginsAfterAck ==
  [][ /\ PollingBegins => RunAcknowledged /\ RunDone(UpdateCellOk)
      /\ RunFails => Idle' /\ PollLoads(loads') = PollLoads(loads) ]_vars

=============================================================================
